---- MODULE Spec2Model ----
(***************************************************************************)
(* Model of the segment codec of prompt-manager: parseSegments,            *)
(* parseCodeBlock and buildRawText of frontend/src/Editor.jsx, and the     *)
(* exported parseSegments of frontend/src/parseSegments.js.                *)
(*                                                                         *)
(* A JavaScript string is a sequence of one-character strings.  Positions  *)
(* are 0-based as in the source; slice(s, a, b) is s.slice(a, b).          *)
(***************************************************************************)
EXTENDS Integers, Sequences, FiniteSets, TLC

(* ------------------------------------------------------------------ *)
(* Bounds of the model                                                  *)
(* ------------------------------------------------------------------ *)
\* number of tokens an input text is made of
MaxTokens == 4
\* number of segments of a document handed to buildRawText
MaxSegs == 2

(* ------------------------------------------------------------------ *)
(* Literals of the wire format                                          *)
(* ------------------------------------------------------------------ *)
OPEN == <<"{", "{", "{">>
CLOSE == <<"}", "}", "}">>
MARKER == <<"[", "r", "e", "a", "d", "o", "n", "l", "y", "]">>
NL == "\n"
\* the characters String.prototype.trim removes (those the model's texts use)
WhiteSpace == {" ", "\t", "\n", "\r"}

(* ------------------------------------------------------------------ *)
(* JavaScript string primitives used by the codec                       *)
(* ------------------------------------------------------------------ *)
Min(S) == CHOOSE x \in S : \A y \in S : x <= y

\* s.slice(from, to) for 0 <= from, to (to is clamped to the length)
slice(s, from, to) ==
    LET t == IF to > Len(s) THEN Len(s) ELSE to
    IN  IF from >= t THEN <<>> ELSE SubSeq(s, from + 1, t)

\* s.slice(from)
sliceFrom(s, from) == slice(s, from, Len(s))

\* the positions i >= from at which pat occurs in s
Occurrences(s, pat, from) ==
    {i \in from .. (Len(s) - Len(pat)) : SubSeq(s, i + 1, i + Len(pat)) = pat}

Max(S) == CHOOSE x \in S : \A y \in S : x >= y

\* the last position instead of the first (mutation of indexOf)
indexOf_last(s, pat, from) ==
    LET hits == Occurrences(s, pat, from)
    IN  IF hits = {} THEN -1 ELSE Max(hits)

\* s.indexOf(pat, from): first position >= from, -1 when there is none
indexOf(s, pat, from) ==
    LET hits == Occurrences(s, pat, from)
    IN  IF hits = {} THEN -1 ELSE Min(hits)

\* s.includes(pat)
includes(s, pat) == indexOf(s, pat, 0) # -1

\* s.replace(pat, rep) with a string pattern: the first occurrence only
replace(s, pat, rep) ==
    LET i == indexOf(s, pat, 0)
    IN  IF i = -1 THEN s
        ELSE slice(s, 0, i) \o rep \o sliceFrom(s, i + Len(pat))

\* s.trim()
RECURSIVE trimStart(_)
trimStart(s) ==
    IF s # <<>> /\ Head(s) \in WhiteSpace THEN trimStart(Tail(s)) ELSE s

RECURSIVE trimEnd(_)
trimEnd(s) ==
    IF s # <<>> /\ s[Len(s)] \in WhiteSpace
    THEN trimEnd(SubSeq(s, 1, Len(s) - 1)) ELSE s

trim(s) == trimEnd(trimStart(s))

\* s.split("\n"): the lines of s, at least one
RECURSIVE split(_, _)
split(s, sep) ==
    LET i == indexOf(s, <<sep>>, 0)
    IN  IF i = -1 THEN <<s>>
        ELSE <<slice(s, 0, i)>> \o split(sliceFrom(s, i + 1), sep)

\* lines.join("\n")
RECURSIVE join(_, _)
join(lines, sep) ==
    IF lines = <<>> THEN <<>>
    ELSE IF Len(lines) = 1 THEN lines[1]
    ELSE lines[1] \o <<sep>> \o join(Tail(lines), sep)

\* the concatenation of a sequence of strings
RECURSIVE Flatten(_)
Flatten(ts) == IF ts = <<>> THEN <<>> ELSE Head(ts) \o Flatten(Tail(ts))

(* ------------------------------------------------------------------ *)
(* Segments                                                             *)
(* ------------------------------------------------------------------ *)
TextSegment(c) == [type |-> "text", content |-> c]
CodeSegment(l, ro, c) ==
    [type |-> "code", language |-> l, readOnly |-> ro, content |-> c]
\* the code segments of parseSegments.js carry no readOnly field
CodeSegmentJs(l, c) == [type |-> "code", language |-> l, content |-> c]

(* ------------------------------------------------------------------ *)
(* Editor.jsx: parseCodeBlock                                           *)
(* ------------------------------------------------------------------ *)
\* parseCodeBlock trimming the content as well (mutation of parseCodeBlock)
parseCodeBlock_trimContent(blockText) ==
    LET lines == split(blockText, NL)
        firstLine0 == Head(lines)
        content == trim(join(Tail(lines), NL))
        readOnly == includes(firstLine0, MARKER)
        firstLine == IF readOnly
                     THEN trim(replace(firstLine0, MARKER, <<>>))
                     ELSE firstLine0
        language == trim(firstLine)
    IN  CodeSegment(language, readOnly, content)

\* parseCodeBlock joining the content lines without the newline
\* (mutation of parseCodeBlock)
parseCodeBlock_joinEmpty(blockText) ==
    LET lines == split(blockText, NL)
        firstLine0 == Head(lines)
        content == Flatten(Tail(lines))
        readOnly == includes(firstLine0, MARKER)
        firstLine == IF readOnly
                     THEN trim(replace(firstLine0, MARKER, <<>>))
                     ELSE firstLine0
        language == trim(firstLine)
    IN  CodeSegment(language, readOnly, content)

\* parseCodeBlock looking for the marker in the whole block
\* (mutation of parseCodeBlock)
parseCodeBlock_anyLine(blockText) ==
    LET lines == split(blockText, NL)
        firstLine0 == Head(lines)
        content == join(Tail(lines), NL)
        readOnly == includes(blockText, MARKER)
        firstLine == IF readOnly
                     THEN trim(replace(firstLine0, MARKER, <<>>))
                     ELSE firstLine0
        language == trim(firstLine)
    IN  CodeSegment(language, readOnly, content)

parseCodeBlock(blockText) ==
    LET lines == split(blockText, NL)
        \* lines.shift() || ""
        firstLine0 == Head(lines)
        content == join(Tail(lines), NL)
        readOnly == includes(firstLine0, MARKER)
        firstLine == IF readOnly
                     THEN trim(replace(firstLine0, MARKER, <<>>))
                     ELSE firstLine0
        language == trim(firstLine)
    IN  CodeSegment(language, readOnly, content)

(* ------------------------------------------------------------------ *)
(* Editor.jsx: parseSegments, one iteration of its while loop           *)
(* st = [index, segments, running]; running is FALSE after a break      *)
(* ------------------------------------------------------------------ *)
\* parseIter pushing an unterminated block as plain text (mutation of parseIter)
parseIter_unterminatedText(rawText, st) ==
    LET start == indexOf(rawText, OPEN, st.index)
    IN  IF start = -1
        THEN [index |-> st.index,
              segments |-> Append(st.segments,
                                  TextSegment(sliceFrom(rawText, st.index))),
              running |-> FALSE]
        ELSE
          LET segs == IF start > st.index
                      THEN Append(st.segments,
                                  TextSegment(slice(rawText, st.index, start)))
                      ELSE st.segments
              end == indexOf(rawText, CLOSE, start + 3)
          IN  IF end = -1
              THEN [index |-> st.index,
                    segments |-> Append(segs,
                                   TextSegment(sliceFrom(rawText, start))),
                    running |-> FALSE]
              ELSE [index |-> end + 3,
                    segments |-> Append(segs,
                                   parseCodeBlock(slice(rawText, start + 3, end))),
                    running |-> TRUE]

\* parseIter without "index = end + 3" (mutation of parseIter)
parseIter_noAdvance(rawText, st) ==
    LET start == indexOf(rawText, OPEN, st.index)
    IN  IF start = -1
        THEN [index |-> st.index,
              segments |-> Append(st.segments,
                                  TextSegment(sliceFrom(rawText, st.index))),
              running |-> FALSE]
        ELSE
          LET segs == IF start > st.index
                      THEN Append(st.segments,
                                  TextSegment(slice(rawText, st.index, start)))
                      ELSE st.segments
              end == indexOf(rawText, CLOSE, start + 3)
          IN  IF end = -1
              THEN [index |-> st.index,
                    segments |-> Append(segs,
                                   parseCodeBlock(sliceFrom(rawText, start + 3))),
                    running |-> FALSE]
              ELSE [index |-> st.index,
                    segments |-> Append(segs,
                                   parseCodeBlock(slice(rawText, start + 3, end))),
                    running |-> TRUE]

parseIter(rawText, st) ==
    LET start == indexOf(rawText, OPEN, st.index)
    IN  IF start = -1
        THEN [index |-> st.index,
              segments |-> Append(st.segments,
                                  TextSegment(sliceFrom(rawText, st.index))),
              running |-> FALSE]
        ELSE
          LET segs == IF start > st.index
                      THEN Append(st.segments,
                                  TextSegment(slice(rawText, st.index, start)))
                      ELSE st.segments
              end == indexOf(rawText, CLOSE, start + 3)
          IN  IF end = -1
              THEN [index |-> st.index,
                    segments |-> Append(segs,
                                   parseCodeBlock(sliceFrom(rawText, start + 3))),
                    running |-> FALSE]
              ELSE [index |-> end + 3,
                    segments |-> Append(segs,
                                   parseCodeBlock(slice(rawText, start + 3, end))),
                    running |-> TRUE]

parseStart == [index |-> 0, segments |-> <<>>, running |-> TRUE]

\* a loop test that admits index = length (mutation of loopTest)
loopTest_inclusive(rawText, index) == index <= Len(rawText)

\* while (index < rawText.length)
loopTest(rawText, index) == index < Len(rawText)

RECURSIVE parseLoop(_, _)
parseLoop(rawText, st) ==
    IF st.running /\ loopTest(rawText, st.index)
    THEN parseLoop(rawText, parseIter(rawText, st))
    ELSE st.segments

parseSegments(rawText) == parseLoop(rawText, parseStart)

(* ------------------------------------------------------------------ *)
(* parseSegments.js: the exported parseSegments                         *)
(* ------------------------------------------------------------------ *)
\* lines 45-60: header of a terminated block
parseBlockJs(codeBlock) ==
    LET firstLineBreak == indexOf(codeBlock, <<NL>>, 0)
    IN  IF firstLineBreak # -1
        THEN CodeSegmentJs(trim(slice(codeBlock, 0, firstLineBreak)),
                           sliceFrom(codeBlock, firstLineBreak + 1))
        ELSE CodeSegmentJs(<<>>, codeBlock)

parseIterJs(rawText, st) ==
    LET startIdx == indexOf(rawText, OPEN, st.index)
    IN  IF startIdx = -1
        THEN [index |-> st.index,
              segments |-> Append(st.segments,
                                  TextSegment(sliceFrom(rawText, st.index))),
              running |-> FALSE]
        ELSE
          LET segs == IF startIdx > st.index
                      THEN Append(st.segments,
                                  TextSegment(slice(rawText, st.index, startIdx)))
                      ELSE st.segments
              endIdx == indexOf(rawText, CLOSE, startIdx + 3)
          IN  IF endIdx = -1
              THEN [index |-> st.index,
                    segments |-> Append(segs,
                                   CodeSegmentJs(<<>>,
                                       sliceFrom(rawText, startIdx + 3))),
                    running |-> FALSE]
              ELSE [index |-> endIdx + 3,
                    segments |-> Append(segs,
                                   parseBlockJs(slice(rawText, startIdx + 3, endIdx))),
                    running |-> TRUE]

\* while (currentIndex < rawText.length)
loopTestJs(rawText, currentIndex) == currentIndex < Len(rawText)

RECURSIVE parseLoopJs(_, _)
parseLoopJs(rawText, st) ==
    IF st.running /\ loopTestJs(rawText, st.index)
    THEN parseLoopJs(rawText, parseIterJs(rawText, st))
    ELSE st.segments

parseSegmentsJs(rawText) == parseLoopJs(rawText, parseStart)

(* ------------------------------------------------------------------ *)
(* Editor.jsx: buildRawText                                             *)
(* ------------------------------------------------------------------ *)
\* the marker appended without its leading space (mutation of renderSegment)
renderSegment_noSpace(seg) ==
    IF seg.type = "text"
    THEN seg.content
    ELSE LET roMarker == IF seg.readOnly THEN MARKER ELSE <<>>
         IN  OPEN \o seg.language \o roMarker \o <<NL>> \o seg.content \o CLOSE

\* the callback of segments.map
renderSegment(seg) ==
    IF seg.type = "text"
    THEN seg.content
    ELSE LET roMarker == IF seg.readOnly THEN <<" ">> \o MARKER ELSE <<>>
         IN  OPEN \o seg.language \o roMarker \o <<NL>> \o seg.content \o CLOSE

\* segments.map(...).join("")
buildRawText(segments) ==
    Flatten([i \in 1 .. Len(segments) |-> renderSegment(segments[i])])

(* ------------------------------------------------------------------ *)
(* parseSegments.js: buildRawText                                       *)
(* ------------------------------------------------------------------ *)
renderSegmentJs(seg) ==
    IF seg.type = "text"
    THEN seg.content
    ELSE OPEN \o (IF seg.language # <<>> THEN seg.language \o <<NL>> ELSE <<NL>>)
              \o seg.content \o CLOSE

buildRawTextJs(segments) ==
    Flatten([i \in 1 .. Len(segments) |-> renderSegmentJs(segments[i])])

(* ================================================================== *)
(* The Editor component and the App that hosts it                       *)
(* ================================================================== *)
\* number of template-detail fetches in flight at once
MaxPending == 2

\* s.replace(/pat/g, rep): every match, left to right, without rescanning
RECURSIVE replaceAll(_, _, _)
replaceAll(s, pat, rep) ==
    LET i == indexOf(s, pat, 0)
    IN  IF i = -1 THEN s
        ELSE slice(s, 0, i) \o rep
             \o replaceAll(sliceFrom(s, i + Len(pat)), pat, rep)

\* the character U+0060 (a string of the module cannot hold it)
BACKTICK == "U+0060"
FENCE == <<BACKTICK, BACKTICK, BACKTICK, BACKTICK>>

\* App.jsx 320-323: the text handleCopyRawText writes to the clipboard
copyTransform(finalRaw) ==
    replaceAll(replaceAll(replaceAll(finalRaw, MARKER, <<>>), OPEN, FENCE),
               CLOSE, FENCE)

\* App.jsx 119: the older handleCopyRawText only strips the marker
copyTransformStrip(finalRaw) == replaceAll(finalRaw, MARKER, <<>>)

\* Editor.jsx 117-123
getRawText(mode, rawText, segments) ==
    IF mode = "raw" THEN rawText ELSE buildRawText(segments)

\* a change handler on every code block (mutation of editable)
editable_anyCode(seg) == seg.type = "code"

\* Editor.jsx 158-195: only a code block that is not readOnly is rendered as
\* a textarea with an onChange handler
editable(seg) == seg.type = "code" /\ ~seg.readOnly

\* a handler that also resets the language (mutation of handleSegmentChange)
handleSegmentChange_resetLanguage(segments, idx, newValue) ==
    [segments EXCEPT ![idx].content = newValue, ![idx].language = <<>>]

\* Editor.jsx 129-133: the segments handed to setSegments
handleSegmentChange(segments, idx, newValue) ==
    [segments EXCEPT ![idx].content = newValue]

\* the effect re-parsing on a change of rawText only (mutation of reparses)
reparses_rawTextOnly(mode, modeChanged, rawTextChanged) ==
    rawTextChanged /\ mode = "enhanced"

\* Editor.jsx 109-114: the effect with dependencies [mode, rawText]
reparses(mode, modeChanged, rawTextChanged) ==
    (modeChanged \/ rawTextChanged) /\ mode = "enhanced"

\* the value window._editorRef?.getRawText?.() yields
Undefined == [defined |-> FALSE, text |-> <<>>]
Defined(text) == [defined |-> TRUE, text |-> text]

\* a check that drops the empty string (mutation of saveClickAccepts)
saveClickAccepts_truthy(finalRaw) == finalRaw.defined /\ finalRaw.text # <<>>

\* App.jsx 131: finalRaw !== undefined && finalRaw !== null
saveClickAccepts(finalRaw) == finalRaw.defined

\* templates; id 0 stands for the id null of a template not yet created
NoTemplate == [isNull |-> TRUE, id |-> 0, name |-> "", content |-> <<>>]
Template(id, name, content) ==
    [isNull |-> FALSE, id |-> id, name |-> name, content |-> content]

NoRequest == [method |-> "none", id |-> 0, name |-> "", content |-> <<>>]

\* App.jsx 41-88: the request handleSaveTemplate issues
handleSaveTemplate(selectedTemplate, finalRawText) ==
    IF selectedTemplate.isNull THEN NoRequest
    ELSE IF selectedTemplate.id = 0
    THEN [method |-> "POST", id |-> 0,
          name |-> selectedTemplate.name, content |-> finalRawText]
    ELSE [method |-> "PUT", id |-> selectedTemplate.id,
          name |-> selectedTemplate.name, content |-> finalRawText]

AppVersions == {"App.jsx:1-191", "App.jsx:192-394"}
EditorVersions == {"Editor.jsx", "part_000"}

\* App.jsx 178: key={selectedTemplate.id || "new"}; the later App gives no key
editorKey(appVersion, tmpl) ==
    IF appVersion = "App.jsx:1-191" THEN tmpl.id ELSE 0

(* ------------------------------------------------------------------ *)
(* The Editor instance and window._editorRef                            *)
(* ------------------------------------------------------------------ *)
\* parsed and parsedFrom record the last run of the parse effect: its result
\* and the rawText it read
NoEditor ==
    [mounted |-> FALSE, key |-> 0, initialContent |-> <<>>, rawText |-> <<>>,
     segments |-> <<>>, parsed |-> <<>>, parsedFrom |-> <<>>]

\* window._editorRef: the mode, rawText and segments its getRawText closes
\* over; current: it is the object editorRef.current holds
NoRef ==
    [set |-> FALSE, current |-> FALSE, mode |-> "raw", rawText |-> <<>>,
     segments |-> <<>>]

Closure(current, mode, rawText, segments) ==
    [set |-> TRUE, current |-> current, mode |-> mode, rawText |-> rawText,
     segments |-> segments]

\* window._editorRef?.getRawText?.()
callEditorRef(ref) ==
    IF ref.set THEN Defined(getRawText(ref.mode, ref.rawText, ref.segments))
    ELSE Undefined

\* window._editorRef after a render of a mounted Editor.
\* Editor.jsx 96-103: the effect has no dependencies, so the window keeps the
\* object of the first render while editorRef.current is replaced (line 126).
\* part_000 80-93: the effect depends on [mode, rawText, segments] and stores
\* a new closure whenever one of them changed.
refAfterRender(edVersion, ref, mode, rawText, segments) ==
    IF edVersion = "Editor.jsx"
    THEN [ref EXCEPT !.current = FALSE]
    ELSE Closure(TRUE, mode, rawText, segments)

\* Editor.jsx 90-114: mount. The first render has rawText = initialContent and
\* segments = []; the effects publish the ref and, in enhanced mode, parse.
mountEditor(edVersion, mode, key, content) ==
    LET segs == IF reparses(mode, TRUE, TRUE) THEN parseSegments(content) ELSE <<>>
        first == Closure(TRUE, mode, content, <<>>)
    IN  [editor |-> [mounted |-> TRUE, key |-> key, initialContent |-> content,
                     rawText |-> content, segments |-> segs,
                     parsed |-> segs, parsedFrom |-> content],
         ref |-> IF mode = "enhanced"
                 THEN refAfterRender(edVersion, first, mode, content, segs)
                 ELSE first]

\* Editor.jsx 98-102 / part_000 90-92: the cleanup of the ref effect
unmountEditor(edVersion, ref) ==
    IF edVersion = "Editor.jsx"
    THEN IF ref.current THEN NoRef ELSE ref
    ELSE NoRef

\* Editor.jsx 105-114: a render of the mounted Editor with new props
updateEditor(edVersion, mode, modeChanged, content, editor, ref) ==
    LET rawText1 == IF content # editor.initialContent THEN content
                    ELSE editor.rawText
        parse == reparses(mode, modeChanged, rawText1 # editor.rawText)
        segs1 == IF parse THEN parseSegments(rawText1) ELSE editor.segments
    IN  [editor |-> [editor EXCEPT !.initialContent = content,
                                   !.rawText = rawText1,
                                   !.segments = segs1,
                                   !.parsed = IF parse THEN segs1 ELSE @,
                                   !.parsedFrom = IF parse THEN rawText1 ELSE @],
         ref |-> refAfterRender(edVersion, ref, mode, rawText1, segs1)]

\* App.jsx 176-184 and 380-387: the Editor the App renders for a selection
render(appVersion, edVersion, selectedTemplate, mode, modeChanged, editor, ref) ==
    IF selectedTemplate.isNull
    THEN IF editor.mounted
         THEN [editor |-> NoEditor, ref |-> unmountEditor(edVersion, ref)]
         ELSE [editor |-> editor, ref |-> ref]
    ELSE IF ~editor.mounted \/ editorKey(appVersion, selectedTemplate) # editor.key
    THEN mountEditor(edVersion, mode, editorKey(appVersion, selectedTemplate),
                     selectedTemplate.content)
    ELSE updateEditor(edVersion, mode, modeChanged, selectedTemplate.content,
                      editor, ref)

(* ------------------------------------------------------------------ *)
(* The backend: the templates table and its handlers                    *)
(* ------------------------------------------------------------------ *)
\* ids the table hands out in the model
MaxId == 3

StatusOK == 200
StatusNoContent == 204
StatusBadRequest == 400
StatusInternalServerError == 500

\* a row of the table; created_at and updated_at are left out
Row(id, name, content) == [id |-> id, name |-> name, content |-> content]

nameTaken_never(rows, name, id) == FALSE

\* name TEXT NOT NULL UNIQUE: the name is held by a row other than row id
nameTaken(rows, name, id) == \E r \in rows : r.name = name /\ r.id # id

\* INSERT INTO templates (name, content): AUTOINCREMENT gives the row an id
\* above every id handed out before; a constraint failure changes nothing
insertRow(rows, seq, name, content) ==
    IF nameTaken(rows, name, seq + 1)
    THEN [err |-> TRUE, rows |-> rows, seq |-> seq]
    ELSE [err |-> FALSE, rows |-> rows \cup {Row(seq + 1, name, content)},
          seq |-> seq + 1]

\* UPDATE templates SET name, content WHERE id: no row matching is no error
updateRow(rows, id, name, content) ==
    IF \E r \in rows : r.id = id
    THEN IF nameTaken(rows, name, id)
         THEN [err |-> TRUE, rows |-> rows]
         ELSE [err |-> FALSE,
               rows |-> {IF r.id = id THEN Row(id, name, content) ELSE r : r \in rows}]
    ELSE [err |-> FALSE, rows |-> rows]

\* DELETE FROM templates WHERE id
deleteRow(rows, id) == {r \in rows : r.id # id}

\* the request bodies and ids the clients send
Names == {"", "a", "b"}
Contents == {"x", "y"}
RequestIds == 1..MaxId

(* ------------------------------------------------------------------ *)
(* Texts of the App model                                               *)
(* ------------------------------------------------------------------ *)
\* "{{{a [readonly]\nb}}}c{{{j\nd}}}"
ContentX ==
    OPEN \o <<"a", " ">> \o MARKER \o <<NL, "b">> \o CLOSE \o <<"c">>
         \o OPEN \o <<"j", NL, "d">> \o CLOSE
\* "[read[readonly]only]"
Nested == <<"[", "r", "e", "a", "d">> \o MARKER \o <<"o", "n", "l", "y", "]">>
RawInputs == {Nested, OPEN \o <<NL, "e">> \o CLOSE}
EditValues == {<<>>, <<"e">>}
TemplateIds == {1, 2}
TemplateName(id) == IF id = 1 THEN "t1" ELSE "t2"
NewNames == {"x", "y"}

(* ------------------------------------------------------------------ *)
(* Inputs                                                               *)
(* ------------------------------------------------------------------ *)
\* the pieces input texts are made of: the delimiters, the marker, and the
\* single characters that interact with them
Tokens == {OPEN, CLOSE, MARKER, <<NL>>, <<" ">>, <<"a">>, <<"{">>, <<"}">>}

Inputs == {Flatten(ts) : ts \in UNION {[1 .. n -> Tokens] : n \in 0 .. MaxTokens}}

\* field values of the documents handed to buildRawText
TextVals == {<<>>, <<"a">>, <<"{">>}
LangVals == {<<>>, <<"a">>, <<" ", "a">>, MARKER}
ContentVals == {<<>>, <<"a", NL>>, <<"}">>}

DocSegments ==
    {TextSegment(c) : c \in TextVals}
    \cup {CodeSegment(l, ro, c) : l \in LangVals, ro \in BOOLEAN, c \in ContentVals}

Docs == UNION {[1 .. n -> DocSegments] : n \in 0 .. MaxSegs}

Impls == {"Editor.jsx", "parseSegments.js"}

(* ------------------------------------------------------------------ *)
(* State                                                                *)
(* ------------------------------------------------------------------ *)
VARIABLES
    origin,    \* "text": a raw text is parsed; "doc": a document is encoded first
    doc,       \* the document handed to buildRawText (origin = "doc")
    impl,      \* which parseSegments runs
    rawText,   \* the argument of parseSegments
    pc,        \* "encode", "loop" (at the loop test), "done" (returned), "built"
    index,     \* the cursor of parseSegments
    segments,  \* the segments pushed so far; the result once pc = "done"
    iters,     \* loop iterations executed
    out        \* buildRawText(segments) once pc = "built"

codecVars == <<origin, doc, impl, rawText, pc, index, segments, iters, out>>

VARIABLES
    appVersion,        \* which App of App.jsx runs
    edVersion,         \* which Editor it renders
    server,            \* the content the backend holds for each template id
    templates,         \* the ids of the templates in the sidebar
    selectedTemplate,  \* App state
    editorMode,        \* App state: "raw" or "enhanced"
    editor,            \* the state of the rendered Editor
    editorRef,         \* window._editorRef
    pending,           \* template-detail fetches in flight
    lastClick,         \* the template clicked last and the fate of its fetch
    lastEvent          \* the handler that ran last and what it did

appVars == <<appVersion, edVersion, server, templates, selectedTemplate,
             editorMode, editor, editorRef, pending, lastClick, lastEvent>>

VARIABLES
    table,        \* the rows of templates
    sequence,     \* the largest id AUTOINCREMENT has handed out
    response      \* the request served last and its answer

storeVars == <<table, sequence, response>>

vars == <<codecVars, appVars, storeVars>>

\* no backend runs while the codec or the App is exercised
StoreParked ==
    /\ table = {}
    /\ sequence = 0
    /\ response = [op |-> "none"]

\* no App runs while the codec is exercised on its own
AppParked ==
    /\ appVersion = "none"
    /\ edVersion = "none"
    /\ server = <<>>
    /\ templates = {}
    /\ selectedTemplate = NoTemplate
    /\ editorMode = "raw"
    /\ editor = NoEditor
    /\ editorRef = NoRef
    /\ pending = {}
    /\ lastClick = [id |-> 0, status |-> "none"]
    /\ lastEvent = [event |-> "none"]

Init ==
    /\ \/ /\ origin = "text"
          /\ impl \in Impls
          /\ rawText \in Inputs
          /\ doc = <<>>
          /\ pc = "loop"
       \/ /\ origin = "doc"
          /\ impl = "Editor.jsx"
          /\ doc \in Docs
          /\ rawText = <<>>
          /\ pc = "encode"
    /\ index = 0
    /\ segments = <<>>
    /\ iters = 0
    /\ out = <<>>
    /\ AppParked
    /\ StoreParked

\* buildRawText(doc) becomes the text to parse
Encode ==
    /\ pc = "encode"
    /\ rawText' = buildRawText(doc)
    /\ pc' = "loop"
    /\ UNCHANGED <<origin, doc, impl, index, segments, iters, out, appVars, storeVars>>

\* one iteration of the while loop of Editor.jsx's parseSegments
ParseIter ==
    /\ pc = "loop"
    /\ impl = "Editor.jsx"
    /\ loopTest(rawText, index)
    /\ LET st == parseIter(rawText,
                     [index |-> index, segments |-> segments, running |-> TRUE])
       IN  /\ index' = st.index
           /\ segments' = st.segments
           /\ pc' = IF st.running THEN "loop" ELSE "done"
    /\ iters' = iters + 1
    /\ UNCHANGED <<origin, doc, impl, rawText, out, appVars, storeVars>>

\* one iteration of the while loop of parseSegments.js
ParseIterJs ==
    /\ pc = "loop"
    /\ impl = "parseSegments.js"
    /\ loopTestJs(rawText, index)
    /\ LET st == parseIterJs(rawText,
                     [index |-> index, segments |-> segments, running |-> TRUE])
       IN  /\ index' = st.index
           /\ segments' = st.segments
           /\ pc' = IF st.running THEN "loop" ELSE "done"
    /\ iters' = iters + 1
    /\ UNCHANGED <<origin, doc, impl, rawText, out, appVars, storeVars>>

\* the loop test fails: return segments
ParseReturn ==
    /\ pc = "loop"
    /\ IF impl = "Editor.jsx"
       THEN ~loopTest(rawText, index)
       ELSE ~loopTestJs(rawText, index)
    /\ pc' = "done"
    /\ UNCHANGED <<origin, doc, impl, rawText, index, segments, iters, out, appVars, storeVars>>

\* the caller serialises the parsed segments
Build ==
    /\ pc = "done"
    /\ out' = IF impl = "Editor.jsx"
              THEN buildRawText(segments)
              ELSE buildRawTextJs(segments)
    /\ pc' = "built"
    /\ UNCHANGED <<origin, doc, impl, rawText, index, segments, iters, appVars, storeVars>>

Next == Encode \/ ParseIter \/ ParseIterJs \/ ParseReturn \/ Build

Spec == Init /\ [][Next]_vars

Returned == pc \in {"done", "built"}

(* ================================================================== *)
(* Properties                                                           *)
(* ================================================================== *)
HasOpen(s) == Occurrences(s, OPEN, 0) # {}

\* C5: a text holding no "{{{" parses to exactly one Text segment whose
\* content is the text, and to no segment at all when the text is empty,
\* in Editor.jsx and in parseSegments.js alike.
C5_NoDelimiterOneText ==
    (Returned /\ ~HasOpen(rawText)) =>
        segments = IF rawText = <<>> THEN <<>> ELSE <<TextSegment(rawText)>>

C5_Witness ==
    /\ pc = "done"
    /\ origin = "text"
    /\ ~HasOpen(rawText)
    /\ Len(rawText) >= 2
    /\ Len(segments) = 1

\* C6: parseSegments is total and terminates: every state of a run is a
\* proper state of the loop (the cursor stays inside the text and is past
\* its start once an iteration has run), every iteration either ends the
\* loop or moves the cursor strictly forward, and the loop runs at most
\* length(input) times.
C6_TotalAndTerminating ==
    /\ [](/\ pc \in {"encode", "loop", "done", "built"}
          /\ index \in 0 .. Len(rawText)
          /\ iters <= Len(rawText)
          /\ \A i \in 1 .. Len(segments) : segments[i].type \in {"text", "code"}
          /\ (pc = "loop" /\ iters > 0) => index > 0)
    /\ [][pc = "loop" => (pc' = "done" \/ index' > index)]_vars

C6_Witness ==
    /\ pc = "done"
    /\ iters >= 2
    /\ index > 0
    /\ index < Len(rawText)

\* the body of the first block of s: from behind the first "{{{" to the
\* first "}}}" that follows, or to the end of s
FirstBody(s) ==
    LET p == Min(Occurrences(s, OPEN, 0))
        closes == Occurrences(s, CLOSE, p + 3)
    IN  IF closes = {} THEN SubSeq(s, p + 4, Len(s))
        ELSE SubSeq(s, p + 4, Min(closes))

FirstCode(segs) == IF segs[1].type = "code" THEN segs[1] ELSE segs[2]

\* t is h without its leading and trailing white space
IsTrimOf(t, h) ==
    /\ t # <<>> => (t[1] \notin WhiteSpace /\ t[Len(t)] \notin WhiteSpace)
    /\ \E a \in 0 .. Len(h) :
          /\ a + Len(t) <= Len(h)
          /\ SubSeq(h, a + 1, a + Len(t)) = t
          /\ \A i \in (1 .. a) \cup ((a + Len(t) + 1) .. Len(h)) :
                h[i] \in WhiteSpace

\* C7: header decoding of parseCodeBlock: the header line is the body up to
\* its first newline (the whole body when there is none); readOnly holds
\* exactly when the header line contains "[readonly]"; language is the header
\* line without the first occurrence of the marker, trimmed; content is what
\* follows the first newline, untrimmed, and empty when there is no newline.
C7_HeaderDecoding ==
    (Returned /\ impl = "Editor.jsx" /\ HasOpen(rawText)) =>
        LET body == FirstBody(rawText)
            nls == {i \in 1 .. Len(body) : body[i] = NL}
            header == IF nls = {} THEN body ELSE SubSeq(body, 1, Min(nls) - 1)
            rest == IF nls = {} THEN <<>>
                    ELSE SubSeq(body, Min(nls) + 1, Len(body))
            marks == {i \in 1 .. (Len(header) - Len(MARKER) + 1) :
                         SubSeq(header, i, i + Len(MARKER) - 1) = MARKER}
            unmarked == IF marks = {} THEN header
                        ELSE SubSeq(header, 1, Min(marks) - 1)
                             \o SubSeq(header, Min(marks) + Len(MARKER), Len(header))
            seg == FirstCode(segments)
        IN  /\ seg.type = "code"
            /\ seg.readOnly = (marks # {})
            /\ IsTrimOf(seg.language, unmarked)
            /\ seg.content = rest

C7_Witness ==
    /\ pc = "done"
    /\ impl = "Editor.jsx"
    /\ HasOpen(rawText)
    /\ LET seg == FirstCode(segments)
           body == FirstBody(rawText)
       IN  /\ seg.readOnly
           /\ seg.language # <<>>
           /\ seg.content # <<>>
           /\ body[1] \in WhiteSpace

\* the rendering the encoder rule gives a segment
Rendering(seg) ==
    IF seg.type = "text" THEN seg.content
    ELSE OPEN \o seg.language
              \o (IF seg.readOnly THEN <<" ", "[", "r", "e", "a", "d", "o", "n", "l", "y", "]">>
                  ELSE <<>>)
              \o <<"\n">> \o seg.content \o CLOSE

\* the length of the first n renderings of segs
RECURSIVE RenderedLen(_, _)
RenderedLen(segs, n) ==
    IF n = 0 THEN 0 ELSE RenderedLen(segs, n - 1) + Len(Rendering(segs[n]))

\* text holds the renderings of segs one after another and nothing else
IsEncodingOf(text, segs) ==
    /\ Len(text) = RenderedLen(segs, Len(segs))
    /\ \A i \in 1 .. Len(segs) :
          SubSeq(text, RenderedLen(segs, i - 1) + 1, RenderedLen(segs, i))
              = Rendering(segs[i])

\* C10: buildRawText returns the renderings of the segments, in order and
\* with no separator: a Text segment renders as its content, a Code segment
\* as "{{{" language [" [readonly]"] "\n" content "}}}"; no segment renders
\* as the empty string.
C10_EncoderRule ==
    /\ (origin = "doc" /\ pc # "encode") => IsEncodingOf(rawText, doc)
    /\ (pc = "built" /\ impl = "Editor.jsx") => IsEncodingOf(out, segments)

C10_Witness ==
    /\ origin = "doc"
    /\ pc = "loop"
    /\ Len(doc) = 2
    /\ doc[1].type = "code" /\ doc[1].readOnly /\ doc[1].language # <<>>
    /\ doc[2].type = "text" /\ doc[2].content # <<>>

(* ------------------------------------------------------------------ *)
(* The blocks of a text, found by scanning for the delimiters           *)
(* ------------------------------------------------------------------ *)
\* the positions of "{{{" that no "}}}" follows
Unclosed(s) ==
    {p \in Occurrences(s, OPEN, 0) : Occurrences(s, CLOSE, p + 3) = {}}

\* the bodies of the blocks of s at or after position from
RECURSIVE Bodies(_, _)
Bodies(s, from) ==
    LET opens == Occurrences(s, OPEN, from)
    IN  IF opens = {} THEN {}
        ELSE LET p == Min(opens)
                 closes == Occurrences(s, CLOSE, p + 3)
             IN  IF closes = {} THEN {SubSeq(s, p + 4, Len(s))}
                 ELSE {SubSeq(s, p + 4, Min(closes))}
                      \cup Bodies(s, Min(closes) + 3)

NewlinesOf(body) == {i \in 1 .. Len(body) : body[i] = NL}

HeaderLine(body) ==
    IF NewlinesOf(body) = {} THEN body
    ELSE SubSeq(body, 1, Min(NewlinesOf(body)) - 1)

AfterHeader(body) ==
    IF NewlinesOf(body) = {} THEN <<>>
    ELSE SubSeq(body, Min(NewlinesOf(body)) + 1, Len(body))

\* every "{{{" has a later "}}}" and every block body has a first line
WellFormed(s) ==
    /\ Unclosed(s) = {}
    /\ \A b \in Bodies(s, 0) : NewlinesOf(b) # {}

Contains(s, pat) == Occurrences(s, pat, 0) # {}

Trimmed(s) == s = <<>> \/ (s[1] \notin WhiteSpace /\ s[Len(s)] \notin WhiteSpace)

\* C8: when an opening "{{{" at p has no "}}}" at or after p + 3, the last
\* segment parseSegments (Editor.jsx) returns is the Code segment that
\* parseCodeBlock decodes from the whole remainder behind p, nothing follows
\* it, and the text between the cursor and p comes before it as a Text
\* segment only when it is not empty.
C8_UnterminatedPolicy ==
    (Returned /\ impl = "Editor.jsx" /\ Unclosed(rawText) # {}) =>
        LET p == Min(Unclosed(rawText))
            n == Len(segments)
        IN  /\ n >= 1
            /\ segments[n] = parseCodeBlock(SubSeq(rawText, p + 4, Len(rawText)))
            /\ IF p > index
               THEN /\ n >= 2
                    /\ segments[n - 1] = TextSegment(SubSeq(rawText, index + 1, p))
               ELSE n = 1 \/ segments[n - 1].type = "code"

C8_Witness ==
    /\ pc = "done"
    /\ impl = "Editor.jsx"
    /\ Unclosed(rawText) # {}
    /\ index > 0
    /\ Min(Unclosed(rawText)) > index
    /\ Len(segments) = 3
    /\ segments[2].type = "text"
    /\ segments[3].type = "code"

\* C9: parseSegments of parseSegments.js decodes every block body, closed
\* or not, by one rule: language is the trimmed first line and content is
\* what follows the first newline; a body without newline is all header
\* line and its content is empty.
C9_JsUniformHeaderRule ==
    (Returned /\ impl = "parseSegments.js" /\ HasOpen(rawText)) =>
        LET body == FirstBody(rawText)
            seg == FirstCode(segments)
        IN  /\ seg.type = "code"
            /\ IsTrimOf(seg.language, HeaderLine(body))
            /\ seg.content = AfterHeader(body)

\* C2: serialising the parsed form is a fixed point: parsing and
\* serialising buildRawText(parseSegments(s)) once more gives the same text,
\* for every input s.
C2_Idempotent ==
    (pc = "built" /\ impl = "Editor.jsx") =>
        buildRawText(parseSegments(out)) = out

\* C3: the parsed form is stable: parsing the serialisation of the
\* segments parseSegments returned gives those segments again.
C3_ParsedFormStable ==
    (Returned /\ impl = "Editor.jsx") =>
        parseSegments(buildRawText(segments)) = segments

CanonicalHeader(h) ==
    \/ Trimmed(h) /\ ~Contains(h, MARKER)
    \/ /\ Len(h) >= Len(MARKER) + 1
       /\ SubSeq(h, Len(h) - Len(MARKER), Len(h)) = <<" ">> \o MARKER
       /\ LET l == SubSeq(h, 1, Len(h) - Len(MARKER) - 1)
          IN  Trimmed(l) /\ ~Contains(l, MARKER)

C1_RoundTrip ==
    (origin = "doc" /\ Returned /\ WellFormed(rawText)) => segments = doc

\* a document as the parser produces it
NormalDoc(d) ==
    \A i \in 1 .. Len(d) :
        IF d[i].type = "text"
        THEN /\ d[i].content # <<>>
             /\ ~Contains(d[i].content, OPEN)
             /\ i < Len(d) =>
                  /\ d[i + 1].type = "code"
                  /\ d[i].content[Len(d[i].content)] # "{"
        ELSE /\ Trimmed(d[i].language)
             /\ ~Contains(d[i].language, <<NL>>)
             /\ ~Contains(d[i].language, MARKER)
             /\ ~Contains(d[i].language, CLOSE)
             /\ ~Contains(d[i].content, CLOSE)
             /\ d[i].content # <<>> => d[i].content[Len(d[i].content)] # "}"

\* C1 (amended): parseSegments(buildRawText(d)) equals d for every sequence
\* d with a well-formed serialisation in which no Text segment is empty,
\* contains "{{{", is directly followed by another Text segment or ends with
\* "{" directly before a Code segment, and in which every Code segment has a
\* language without surrounding white space, newline, "[readonly]" and "}}}"
\* and a content that holds no "}}}" and does not end with "}".
C1_NormalRoundTrip ==
    (origin = "doc" /\ Returned /\ WellFormed(rawText) /\ NormalDoc(doc)) =>
        segments = doc

C1_Witness ==
    /\ origin = "doc"
    /\ pc = "done"
    /\ WellFormed(rawText)
    /\ NormalDoc(doc)
    /\ Len(doc) = 2
    /\ doc[1].type = "text"
    /\ doc[2].type = "code" /\ doc[2].readOnly
    /\ doc[2].language # <<>> /\ Contains(doc[2].content, <<NL>>)
    /\ segments = doc

\* C16: no Code segment parseSegments returns holds "}}}" in its content,
\* in Editor.jsx and in parseSegments.js: the first "}}}" behind an opening
\* delimiter ends the block, and an unterminated block holds none.
C16_NoCloseInContent ==
    Returned =>
        \A i \in 1 .. Len(segments) :
            segments[i].type = "code" => ~Contains(segments[i].content, CLOSE)

C16_Witness ==
    /\ pc = "done"
    /\ Cardinality(Occurrences(rawText, CLOSE, 0)) >= 2
    /\ Len(segments) = 2
    /\ segments[1].type = "code"
    /\ segments[1].content # <<>>
    /\ segments[2].type = "text"

\* C17: in every result of parseSegments no Text segment is empty, none
\* contains "{{{", and a Text segment is never directly followed by another
\* Text segment.
C17_ResultShape ==
    Returned =>
        \A i \in 1 .. Len(segments) :
            segments[i].type = "text" =>
                /\ segments[i].content # <<>>
                /\ ~Contains(segments[i].content, OPEN)
                /\ i < Len(segments) => segments[i + 1].type = "code"

C17_Witness ==
    /\ pc = "done"
    /\ Len(segments) = 3
    /\ segments[1].type = "text"
    /\ segments[2].type = "code"
    /\ segments[3].type = "text"


(* ------------------------------------------------------------------ *)
(* The App and its Editor as a state machine                            *)
(* ------------------------------------------------------------------ *)
\* GET /templates/:id of a template in the sidebar
Details(id) == Template(id, TemplateName(id), server[id])

\* the selection goes from one template to a different one
Differs(from, to) == ~from.isNull /\ from # to

Superseded(reqs) == {[r EXCEPT !.last = FALSE] : r \in reqs}

\* the App is loaded: the sidebar lists the stored templates, nothing is
\* selected, the mode is "raw"
AppInit ==
    /\ appVersion \in AppVersions
    /\ edVersion \in EditorVersions
    /\ server = [i \in TemplateIds |-> ContentX]
    /\ templates = TemplateIds
    /\ selectedTemplate = NoTemplate
    /\ editorMode = "raw"
    /\ editor = NoEditor
    /\ editorRef = NoRef
    /\ pending = {}
    /\ lastClick = [id |-> 0, status |-> "none"]
    /\ lastEvent = [event |-> "none"]
    /\ origin = "app"
    /\ doc = <<>>
    /\ impl = "Editor.jsx"
    /\ rawText = <<>>
    /\ pc = "app"
    /\ index = 0
    /\ segments = <<>>
    /\ iters = 0
    /\ out = <<>>
    /\ StoreParked

\* the App renders with a new selection and the Editor follows
Select(tmpl) ==
    LET r == render(appVersion, edVersion, tmpl, editorMode, FALSE, editor,
                    editorRef)
    IN  /\ selectedTemplate' = tmpl
        /\ editor' = r.editor
        /\ editorRef' = r.ref

\* App.jsx 26-30 and 235-239: "New Template", the prompt answered with name
handleNewTemplate(name) ==
    /\ pc = "app"
    /\ Select(Template(0, name, <<>>))
    /\ pending' = Superseded(pending)
    /\ lastClick' = [id |-> 0, status |-> "none"]
    /\ lastEvent' = [event |-> "handleNewTemplate",
                     changed |-> Differs(selectedTemplate, Template(0, name, <<>>))]
    /\ UNCHANGED <<codecVars, storeVars, appVersion, edVersion, server, templates, editorMode>>

\* App.jsx 32-34: a click on a template of the sidebar selects the list entry
handleSelectTemplate(id) ==
    /\ pc = "app"
    /\ appVersion = "App.jsx:1-191"
    /\ id \in templates
    /\ Details(id) # selectedTemplate
    /\ Select(Details(id))
    /\ lastClick' = [id |-> id, status |-> "ok"]
    /\ lastEvent' = [event |-> "handleSelectTemplate",
                     changed |-> Differs(selectedTemplate, Details(id))]
    /\ UNCHANGED <<codecVars, storeVars, appVersion, edVersion, server, templates, editorMode,
                   pending>>

\* App.jsx 217-220: a click on a template of the sidebar requests its details
handleSelectTemplateFetch(id) ==
    /\ pc = "app"
    /\ appVersion = "App.jsx:192-394"
    /\ id \in templates
    /\ Cardinality(pending) < MaxPending
    /\ pending' = Superseded(pending) \cup {[id |-> id, last |-> TRUE]}
    /\ lastClick' = [id |-> id, status |-> "pending"]
    /\ lastEvent' = [event |-> "fetch"]
    /\ UNCHANGED <<codecVars, storeVars, appVersion, edVersion, server, templates,
                   selectedTemplate, editorMode, editor, editorRef>>

\* App.jsx 221-227: a details response arrives and becomes the selection
fetchResolved(req) ==
    /\ pc = "app"
    /\ req \in pending
    /\ req.id \in templates
    /\ Select(Details(req.id))
    /\ pending' = pending \ {req}
    /\ lastClick' = IF req.last THEN [lastClick EXCEPT !.status = "ok"] ELSE lastClick
    /\ lastEvent' = [event |-> "fetchResolved",
                     changed |-> Differs(selectedTemplate, Details(req.id))]
    /\ UNCHANGED <<codecVars, storeVars, appVersion, edVersion, server, templates, editorMode>>

\* App.jsx 228-231: a details request fails; a toast is shown
fetchRejected(req) ==
    /\ pc = "app"
    /\ req \in pending
    /\ pending' = pending \ {req}
    /\ lastClick' = IF req.last THEN [lastClick EXCEPT !.status = "failed"]
                    ELSE lastClick
    /\ lastEvent' = [event |-> "fetchRejected",
                     toast |-> "Failed to fetch template details."]
    /\ UNCHANGED <<codecVars, storeVars, appVersion, edVersion, server, templates,
                   selectedTemplate, editorMode, editor, editorRef>>

\* App.jsx 37-39 and 242-244
toggleEditorMode ==
    LET mode == IF editorMode = "raw" THEN "enhanced" ELSE "raw"
        r == render(appVersion, edVersion, selectedTemplate, mode, TRUE, editor,
                    editorRef)
    IN  /\ pc = "app"
        /\ editorMode' = mode
        /\ editor' = r.editor
        /\ editorRef' = r.ref
        /\ lastEvent' = [event |-> "toggleEditorMode"]
        /\ UNCHANGED <<codecVars, storeVars, appVersion, edVersion, server, templates,
                       selectedTemplate, pending, lastClick>>

\* Editor.jsx 142-148: typing in the textarea of raw mode
onChangeRawText(text) ==
    /\ pc = "app"
    /\ editor.mounted
    /\ editorMode = "raw"
    /\ text # editor.rawText
    /\ editor' = [editor EXCEPT !.rawText = text]
    /\ editorRef' = refAfterRender(edVersion, editorRef, editorMode, text,
                                   editor.segments)
    /\ lastEvent' = [event |-> "onChangeRawText"]
    /\ UNCHANGED <<codecVars, storeVars, appVersion, edVersion, server, templates,
                   selectedTemplate, editorMode, pending, lastClick>>

\* Editor.jsx 129-133 and 150-200: typing in the textarea of a block of
\* enhanced mode
onChangeSegment(idx, newValue) ==
    /\ pc = "app"
    /\ editor.mounted
    /\ editorMode = "enhanced"
    /\ idx \in 1..Len(editor.segments)
    /\ editable(editor.segments[idx])
    /\ newValue # editor.segments[idx].content
    /\ editor' = [editor EXCEPT
                     !.segments = handleSegmentChange(editor.segments, idx, newValue)]
    /\ editorRef' = refAfterRender(edVersion, editorRef, editorMode, editor.rawText,
                                   editor'.segments)
    /\ lastEvent' = [event |-> "handleSegmentChange", idx |-> idx,
                     newValue |-> newValue]
    /\ UNCHANGED <<codecVars, storeVars, appVersion, edVersion, server, templates,
                   selectedTemplate, editorMode, pending, lastClick>>

\* App.jsx 129-136 and 333-340
handleSaveClick ==
    LET finalRaw == callEditorRef(editorRef)
    IN  /\ pc = "app"
        /\ lastEvent' =
              [event |-> "handleSaveClick",
               finalRaw |-> finalRaw,
               request |-> IF saveClickAccepts(finalRaw)
                           THEN handleSaveTemplate(selectedTemplate, finalRaw.text)
                           ELSE NoRequest,
               toast |-> IF saveClickAccepts(finalRaw) THEN ""
                         ELSE "Editor content is undefined."]
        /\ UNCHANGED <<codecVars, storeVars, appVersion, edVersion, server, templates,
                       selectedTemplate, editorMode, editor, editorRef, pending,
                       lastClick>>

\* App.jsx 113-125 and 314-329: "Copy Raw Text", the clipboard write succeeds
handleCopyRawText ==
    LET finalRaw == callEditorRef(editorRef)
    IN  /\ pc = "app"
        /\ ~selectedTemplate.isNull
        /\ finalRaw.defined
        /\ lastEvent' =
              [event |-> "handleCopyRawText",
               finalRaw |-> finalRaw,
               clipboard |-> IF appVersion = "App.jsx:192-394"
                             THEN copyTransform(finalRaw.text)
                             ELSE copyTransformStrip(finalRaw.text)]
        /\ UNCHANGED <<codecVars, storeVars, appVersion, edVersion, server, templates,
                       selectedTemplate, editorMode, editor, editorRef, pending,
                       lastClick>>

\* App.jsx 91-110 and 292-311: delete of a stored template, the DELETE succeeds
handleDeleteTemplate ==
    /\ pc = "app"
    /\ ~selectedTemplate.isNull
    /\ selectedTemplate.id # 0
    /\ templates' = templates \ {selectedTemplate.id}
    /\ Select(NoTemplate)
    /\ pending' = Superseded(pending)
    /\ lastClick' = [id |-> 0, status |-> "none"]
    /\ lastEvent' = [event |-> "handleDeleteTemplate"]
    /\ UNCHANGED <<codecVars, storeVars, appVersion, edVersion, server, editorMode>>

AppNext ==
    \/ \E name \in NewNames : handleNewTemplate(name)
    \/ \E id \in TemplateIds : handleSelectTemplate(id)
    \/ \E id \in TemplateIds : handleSelectTemplateFetch(id)
    \/ \E req \in pending : fetchResolved(req)
    \/ \E req \in pending : fetchRejected(req)
    \/ toggleEditorMode
    \/ \E text \in RawInputs : onChangeRawText(text)
    \/ \E idx \in 1..Len(editor.segments), newValue \in EditValues :
          onChangeSegment(idx, newValue)
    \/ handleSaveClick
    \/ handleCopyRawText
    \/ handleDeleteTemplate

AppSpec == AppInit /\ [][AppNext]_vars


(* ------------------------------------------------------------------ *)
(* Properties of the Editor and the App                                 *)
(* ------------------------------------------------------------------ *)
Changed(event) == lastEvent.event = event

Without(segs, idx) ==
    [before |-> SubSeq(segs, 1, idx - 1), after |-> SubSeq(segs, idx + 1, Len(segs))]

\* C11: handleSegmentChange(idx, v) changes only the content of the segment at
\* idx: the number and order of the segments, every other segment, and the
\* type, language and readOnly of segment idx stay, so buildRawText before and
\* after differ only inside the rendering of segment idx.
C11_SegmentMutationFrame ==
    [][lastEvent'.event = "handleSegmentChange" =>
        LET old == editor.segments
            new == editor'.segments
            idx == lastEvent'.idx
            rest == Without(old, idx)
        IN  /\ Len(new) = Len(old)
            /\ \A j \in 1..Len(old) : j # idx => new[j] = old[j]
            /\ new[idx].type = old[idx].type
            /\ new[idx].language = old[idx].language
            /\ new[idx].readOnly = old[idx].readOnly
            /\ new[idx].content = lastEvent'.newValue
            /\ buildRawText(old) = buildRawText(rest.before)
                   \o renderSegment(old[idx]) \o buildRawText(rest.after)
            /\ buildRawText(new) = buildRawText(rest.before)
                   \o renderSegment(new[idx]) \o buildRawText(rest.after)]_vars

\* a block with a language, between other segments, has been edited
C11_Witness ==
    /\ Changed("handleSegmentChange")
    /\ Len(editor.segments) = 3
    /\ lastEvent.idx = 3
    /\ editor.segments[3].language # <<>>
    /\ editor.segments[3].content = lastEvent.newValue
    /\ buildRawText(editor.segments) # editor.rawText


Protected(seg) == seg.type = "text" \/ seg.readOnly

\* C12: in enhanced mode, whatever edit events followed the parse, every Text
\* segment and every read-only Code segment is as parseSegments produced it,
\* the other segments differ from the parsed ones in their content at most,
\* and an edit event only ever changes a Code segment that is not read-only.
C12_ReadOnlyNotEditable ==
    /\ [](editor.mounted /\ editorMode = "enhanced" =>
            /\ editor.parsed = parseSegments(editor.parsedFrom)
            /\ Len(editor.segments) = Len(editor.parsed)
            /\ \A i \in 1..Len(editor.segments) :
                  IF Protected(editor.parsed[i])
                  THEN editor.segments[i] = editor.parsed[i]
                  ELSE editor.segments[i] =
                          [editor.parsed[i] EXCEPT !.content = editor.segments[i].content])
    /\ [][lastEvent'.event = "handleSegmentChange" =>
            /\ ~Protected(editor.segments[lastEvent'.idx])
            /\ \A i \in 1..Len(editor.segments) :
                  Protected(editor.segments[i]) =>
                      editor'.segments[i] = editor.segments[i]]_vars

\* an edit went through next to a read-only block and a Text segment
C12_Witness ==
    /\ Changed("handleSegmentChange")
    /\ editorMode = "enhanced"
    /\ editor.segments # editor.parsed
    /\ \E i \in 1..Len(editor.segments) :
          editor.segments[i].type = "code" /\ editor.segments[i].readOnly
    /\ \E i \in 1..Len(editor.segments) : editor.segments[i].type = "text"


Current == Defined(getRawText(editorMode, editor.rawText, editor.segments))

\* C13: in Editor.jsx, whatever raw-mode inputs, segment edits and mode toggles
\* happened since the Editor was mounted, the text handleSaveClick obtains from
\* window._editorRef.getRawText() is the current rawText in raw mode and
\* buildRawText of the current segments in enhanced mode.
C13_SaveReceivesCurrentText ==
    (edVersion = "Editor.jsx" /\ editor.mounted /\ Changed("handleSaveClick"))
        => lastEvent.finalRaw = Current

\* the Editor of src/unnamed/part_000 publishes a new closure after every
\* change of mode, rawText or segments, so there the text is the current one
Part000_SaveReceivesCurrentText ==
    (edVersion = "part_000" /\ editor.mounted /\ Changed("handleSaveClick"))
        => lastEvent.finalRaw = Current


C14_WitnessUndefined ==
    /\ Changed("handleSaveClick")
    /\ ~lastEvent.finalRaw.defined
    /\ lastEvent.request = NoRequest


\* C15: in the App whose handleCopyRawText substitutes the fences, the text
\* written to the clipboard contains no "[readonly]", no "{{{" and no "}}}",
\* whatever the editor text is.
C15_ExportTransform ==
    (appVersion = "App.jsx:192-394" /\ Changed("handleCopyRawText")) =>
        /\ ~includes(lastEvent.clipboard, MARKER)
        /\ ~includes(lastEvent.clipboard, OPEN)
        /\ ~includes(lastEvent.clipboard, CLOSE)

\* the other half of C15: a copy changes neither the Editor's rawText and
\* segments nor the text a save would receive
C15_CopyFrame ==
    [][lastEvent'.event = "handleCopyRawText" =>
          /\ editor' = editor
          /\ callEditorRef(editorRef') = callEditorRef(editorRef)]_vars

\* the delimiters are always replaced
C15_NoDelimiters ==
    (appVersion = "App.jsx:192-394" /\ Changed("handleCopyRawText")) =>
        /\ ~includes(lastEvent.clipboard, OPEN)
        /\ ~includes(lastEvent.clipboard, CLOSE)


\* both states show the same Editor instance
SameEditor == editor.mounted /\ editor'.mounted /\ editor'.key = editor.key

\* C18: rawText changes only through an input in the raw-mode textarea or a
\* change of initialContent, and handleSegmentChange leaves it alone. So
\* rawText in enhanced mode is the text that was parsed; a toggle to raw mode
\* after segment edits makes getRawText return that text, and a toggle back
\* to enhanced mode parses it again: the segment edits are in neither.
C18_StateFrameAcrossModes ==
    /\ [](editor.mounted /\ editorMode = "enhanced" =>
             editor.rawText = editor.parsedFrom)
    /\ [][/\ (SameEditor /\ editor'.rawText # editor.rawText) =>
                \/ lastEvent'.event = "onChangeRawText"
                \/ editor'.initialContent # editor.initialContent
          /\ lastEvent'.event = "handleSegmentChange" =>
                editor'.rawText = editor.rawText
          /\ (lastEvent'.event = "toggleEditorMode" /\ SameEditor) =>
                /\ editor'.rawText = editor.rawText
                /\ editorMode' = "raw" =>
                      getRawText(editorMode', editor'.rawText, editor'.segments)
                          = editor.parsedFrom
                /\ editorMode' = "enhanced" =>
                      /\ editor'.segments = parseSegments(editor.rawText)
                      /\ getRawText(editorMode', editor'.rawText, editor'.segments)
                            = buildRawText(parseSegments(editor.rawText))]_vars

\* edited segments were left behind by a toggle to raw mode, and again by the
\* toggle back
C18_Witness ==
    /\ Changed("toggleEditorMode")
    /\ editor.mounted
    /\ editorMode = "raw"
    /\ editor.segments # editor.parsed
    /\ getRawText(editorMode, editor.rawText, editor.segments) = editor.parsedFrom
    /\ buildRawText(editor.segments) # editor.rawText


SelectionEvents == {"handleNewTemplate", "handleSelectTemplate", "fetchResolved"}

\* C19: when the selection has gone from a template to a different one, a
\* stored one or a new blank one, the Editor's rawText is the content of the
\* template now selected, not text typed into the previous one.
C19_NoLeakAcrossTemplates ==
    (lastEvent.event \in SelectionEvents /\ lastEvent.changed /\ editor.mounted)
        => editor.rawText = selectedTemplate.content

\* C19 for the App that gives the Editor a key
C19_Keyed == appVersion = "App.jsx:1-191" => C19_NoLeakAcrossTemplates

\* C19 for the App that gives the Editor no key
C19_Unkeyed == appVersion = "App.jsx:192-394" => C19_NoLeakAcrossTemplates


\* C20: in the App that fetches the details of a clicked template, once every
\* response has arrived and the fetch of the last click succeeded, the
\* selected template is the one clicked last, in whatever order the
\* responses came.
C20_SelectionFollowsLastClick ==
    (appVersion = "App.jsx:192-394" /\ pending = {} /\ lastClick.status = "ok")
        => (~selectedTemplate.isNull /\ selectedTemplate.id = lastClick.id)

\* the other half of C20: a failed fetch leaves selectedTemplate unchanged
C20_FailedFetchFrame ==
    [][lastEvent'.event = "fetchRejected" =>
          selectedTemplate' = selectedTemplate]_vars


(* ------------------------------------------------------------------ *)
(* The backend as a state machine                                       *)
(* ------------------------------------------------------------------ *)
\* main has created the empty table and serves requests; SQLite runs the one
\* statement of each handler atomically
StoreInit ==
    /\ table = {}
    /\ sequence = 0
    /\ response = [op |-> "none"]
    /\ AppParked
    /\ origin = "store"
    /\ doc = <<>>
    /\ impl = "Editor.jsx"
    /\ rawText = <<>>
    /\ pc = "store"
    /\ index = 0
    /\ segments = <<>>
    /\ iters = 0
    /\ out = <<>>

Answer(op, decoded, id, name, content, status) ==
    [op |-> op, decoded |-> decoded, id |-> id, name |-> name,
     content |-> content, status |-> status]

\* POST /templates; decoded: the body is valid JSON
createTemplate(decoded, name, content) ==
    LET r == insertRow(table, sequence, name, content)
    IN  /\ pc = "store"
        /\ (decoded /\ ~r.err) => sequence < MaxId
        /\ IF ~decoded
           THEN /\ response' = Answer("create", FALSE, 0, "", "", StatusBadRequest)
                /\ UNCHANGED <<table, sequence>>
           ELSE /\ table' = r.rows
                /\ sequence' = r.seq
                /\ response' = Answer("create", TRUE, IF r.err THEN 0 ELSE r.seq,
                                      name, content,
                                      IF r.err THEN StatusBadRequest ELSE StatusOK)
        /\ UNCHANGED <<codecVars, appVars>>

\* PUT /templates/{id}
updateTemplate(decoded, id, name, content) ==
    LET r == updateRow(table, id, name, content)
    IN  /\ pc = "store"
        /\ IF ~decoded
           THEN /\ response' = Answer("update", FALSE, id, "", "", StatusBadRequest)
                /\ UNCHANGED table
           ELSE /\ table' = r.rows
                /\ response' = Answer("update", TRUE, id, name, content,
                                      IF r.err THEN StatusInternalServerError
                                      ELSE StatusNoContent)
        /\ UNCHANGED <<codecVars, appVars, sequence>>

\* DELETE /templates/{id}
deleteTemplate(id) ==
    /\ pc = "store"
    /\ table' = deleteRow(table, id)
    /\ response' = Answer("delete", TRUE, id, "", "", StatusNoContent)
    /\ UNCHANGED <<codecVars, appVars, sequence>>

StoreNext ==
    \/ \E decoded \in BOOLEAN, name \in Names, content \in Contents :
          createTemplate(decoded, name, content)
    \/ \E decoded \in BOOLEAN, id \in RequestIds, name \in Names, content \in Contents :
          updateTemplate(decoded, id, name, content)
    \/ \E id \in RequestIds : deleteTemplate(id)

StoreSpec == StoreInit /\ [][StoreNext]_vars

(* ------------------------------------------------------------------ *)
(* Properties of the backend                                            *)
(* ------------------------------------------------------------------ *)
Stored(name) == \E r \in table : r.name = name

\* C21: whatever create, update and delete requests were served, no two rows
\* of the table have the same name and no two have the same id. A create
\* whose name is stored answers 400, an update that would give a row the name
\* of another row answers 500, and both leave the table as it was.
C21_StoreInvariant ==
    /\ [](\A r1, r2 \in table :
             (r1.name = r2.name \/ r1.id = r2.id) => r1 = r2)
    /\ [][/\ (response'.op = "create" /\ response'.decoded
                /\ Stored(response'.name)) =>
                   (response'.status = StatusBadRequest /\ table' = table)
          /\ (response'.op = "update" /\ response'.decoded
                /\ (\E r \in table : r.id = response'.id)
                /\ (\E r \in table : r.id # response'.id
                                       /\ r.name = response'.name)) =>
                   (response'.status = StatusInternalServerError
                      /\ table' = table)]_vars

\* a create with a stored name was refused while two templates are stored,
\* one of them with an id handed out after a delete
C21_Witness ==
    /\ response.op = "create"
    /\ response.decoded
    /\ response.status = StatusBadRequest
    /\ Stored(response.name)
    /\ Cardinality(table) = 2
    /\ \E r \in table : r.id = MaxId

\* an update to the name of another template was refused
C21_WitnessUpdate ==
    /\ response.op = "update"
    /\ response.decoded
    /\ response.status = StatusInternalServerError
    /\ \E r \in table : r.id = response.id /\ r.name # response.name
    /\ \E r \in table : r.id # response.id /\ r.name = response.name

====
